---- MODULE Spec2Model ----
(***************************************************************************)
(* State-machine model of the MinecraftBot server: the bot-session manager *)
(* (server/mineflayer.ts), the WebSocket gateway (server/routes.ts) and    *)
(* the in-memory record store (server/storage.ts).                         *)
(*                                                                         *)
(* Node runs every handler to completion, so each action is one handler.   *)
(* The GameSession (a mineflayer Bot) and the browser sockets are the      *)
(* environment: their events are chosen nondeterministically.              *)
(***************************************************************************)
EXTENDS Integers, Sequences, FiniteSets, TLC

\* ------------------------------------------------------------------ bounds
NumClients == 2      \* browser connections accepted in a run
MaxBots == 2         \* createBot calls in a run (persisted record ids)
MaxGs == 3           \* GameSessions constructed in a run
MaxClock == 2        \* values of Date.now() in a run: 0..MaxClock
MaxPush == 6         \* pushes recorded before the environment stops feeding events
MaxChat == 2         \* chat entries per session under Spec
MaxChatEvents == 103 \* chat events delivered under SpecChat
MaxJumps == 2        \* jump timers pending at a time

\* ------------------------------------------------------- program constants
ChatLimit == 100
DefaultHealth == 20
DefaultPort == 25565
TimeoutDelay == 20000
ReconnectDelay == 1000
JumpDelay == 100

DefaultVersion == "1.21.4"
NoBot == <<>>
NoSid == 0

ClientIds == 1..NumClients
GsIds == 1..MaxGs
Names == {"Scout"}
\* A server address is the sequence of its characters.
PlayExample ==
  << "p", "l", "a", "y", ".", "e", "x", "a", "m", "p", "l", "e", ".", "c", "o", "m",
     ":", "2", "5", "5", "6", "5" >>
\* Server addresses a browser may send: mc.io, localhost, 10.0.0.1, mc.io:,
\* mc.io:123456, mc.io:80 and mc.io:08080 besides play.example.com:25565.
Addresses ==
  { PlayExample,
    << "m", "c", ".", "i", "o" >>,
    << "l", "o", "c", "a", "l", "h", "o", "s", "t" >>,
    << "1", "0", ".", "0", ".", "0", ".", "1" >>,
    << "m", "c", ".", "i", "o", ":" >>,
    << "m", "c", ".", "i", "o", ":", "1", "2", "3", "4", "5", "6" >>,
    << "m", "c", ".", "i", "o", ":", "8", "0" >>,
    << "m", "c", ".", "i", "o", ":", "0", "8", "0", "8", "0" >> }

\* The character classes of the schema's pattern.
DigitChars == << "0", "1", "2", "3", "4", "5", "6", "7", "8", "9" >>
Digits == { DigitChars[i] : i \in 1..Len(DigitChars) }
Letters ==
  { "a", "b", "c", "d", "e", "f", "g", "h", "i", "j", "k", "l", "m", "n", "o", "p", "q",
    "r", "s", "t", "u", "v", "w", "x", "y", "z", "A", "B", "C", "D", "E", "F", "G", "H",
    "I", "J", "K", "L", "M", "N", "O", "P", "Q", "R", "S", "T", "U", "V", "W", "X", "Y",
    "Z" }
HostChars == Letters \cup Digits \cup {".", "-"}
AllIn(s, from, to, class) == \A k \in from..to : s[k] \in class
\* /^[a-zA-Z0-9.-]+\.[a-zA-Z]{2,}(:[0-9]{1,5})?$/ : a host part, the dot at i, a
\* top-level domain up to j, then nothing or a colon and one to five digits.
MatchesAddress(s) ==
  \E i \in 2..Len(s) :
    /\ s[i] = "."
    /\ AllIn(s, 1, i - 1, HostChars)
    /\ \E j \in (i + 2)..Len(s) :
         /\ j = Len(s) \/ s[j + 1] = ":"
         /\ AllIn(s, i + 1, j, Letters)
         /\ \/ j = Len(s)
            \/ /\ j + 2 <= Len(s) /\ Len(s) - (j + 1) <= 5
               /\ AllIn(s, j + 2, Len(s), Digits)

\* A number the GameSession reports: whole + tenths/10 (tenths in 0..9).
Num(w, t) == [whole |-> w, tenths |-> t]
NoNum == Num(0 - 1, 9)
\* Math.round: to the nearest integer, halves up.
MathRound(n) == IF n.tenths >= 5 THEN n.whole + 1 ELSE n.whole
IsInteger(n) == n.tenths = 0
InGameRange(n) == IsInteger(n) /\ n.whole >= 0 /\ n.whole <= DefaultHealth

\* What a GameSession may report in a health event: <<health, food>>.
HealthReports ==
  { <<Num(20, 0), Num(18, 0)>>, <<Num(19, 5), Num(6, 0)>>, <<Num(25, 0), Num(0 - 1, 0)>> }

\* ---------------------------------------------------------------- state
VARIABLES
  clients,        \* routes.ts `clients`: clientId -> its botId (NoBot when unset)
  clientSockets,  \* manager `clientSockets`: the registered clientIds
  readyState,     \* every accepted socket's readyState
  nextClient,     \* the next connection's id (nanoid: never reused)
  activeBots,     \* manager `activeBots`: botId -> the ActiveBot object (by its id)
  sessions,       \* the ActiveBot objects, keyed by the persisted id they carry
  store,          \* MemStorage.bots: id -> persisted record
  currentId,      \* MemStorage.currentId
  gs,             \* the GameSessions constructed so far, with their handler closures
  timers,         \* pending setTimeout callbacks, in scheduling order
  inflight,       \* createBot calls suspended at `await storage.createBot`
  pushes,         \* what was sent to the browsers, in order
  now,            \* Date.now()
  called,         \* botIds disconnectBot was called on since their last creation (history)
  last,           \* the handler that ran last and what it did (history)
  provider        \* the browser's WebSocketProvider: its state, refs, sockets and promises

vars == << clients, clientSockets, readyState, nextClient, activeBots, sessions,
           store, currentId, gs, timers, inflight, pushes, now, called, last >>

\* The part of the state the manager's methods and handlers work on.
M == [ activeBots |-> activeBots, sessions |-> sessions, store |-> store,
       gs |-> gs, timers |-> timers, pushes |-> pushes, called |-> called,
       calls |-> <<>>, cmds |-> <<>>, ret |-> "none", threw |-> FALSE,
       action |-> "", grounded |-> FALSE, err |-> << >> ]

Commit(m) ==
  /\ activeBots' = m.activeBots
  /\ sessions' = m.sessions
  /\ store' = m.store
  /\ gs' = m.gs
  /\ timers' = m.timers
  /\ pushes' = m.pushes
  /\ called' = m.called

\* ---------------------------------------------------------------- helpers
Put(f, k, v) == [x \in DOMAIN f \cup {k} |-> IF x = k THEN v ELSE f[x]]
Del(f, k) == [x \in DOMAIN f \ {k} |-> f[x]]

NoMsg == [username |-> "", content |-> 0, timestamp |-> 0]
Push(to, type, sid, text) ==
  [to |-> to, type |-> type, sid |-> sid, text |-> text, msg |-> NoMsg,
   health |-> NoNum, food |-> NoNum]

\* `${botName}-${Date.now()}`
MakeBotId(botName, t) == <<botName, t>>

\* MemStorage.updateBot: merge the updates into the record, if it exists.
updateBot(st, id, field, value) ==
  IF id \in DOMAIN st THEN [st EXCEPT ![id][field] = value] ELSE st

\* A socket.send that delivers the data twice.
socketSendTwice(m, c, msg) ==
  IF readyState[c] = "OPEN" THEN [m EXCEPT !.pushes = Append(Append(@, msg), msg)] ELSE m

\* socket.send from the gateway: ws drops data sent on a socket that is not open.
socketSend(m, c, msg) ==
  IF readyState[c] = "OPEN" THEN [m EXCEPT !.pushes = Append(@, msg)] ELSE m

\* A sendToClient that sends whatever the state of the socket.
sendAlways(m, c, msg) == [m EXCEPT !.pushes = Append(@, msg)]

\* MinecraftBotManager.sendToClient
sendToClient(m, c, msg) ==
  IF c \in clientSockets /\ readyState[c] = "OPEN"
  THEN [m EXCEPT !.pushes = Append(@, msg)]
  ELSE m

\* bot.quit() / bot.end(): asks the GameSession to close; its `end` event follows.
EndGs(g, rec) == IF rec.ended = "no" THEN [rec EXCEPT !.ended = "requested"] ELSE rec

\* MinecraftBotManager.disconnectBot. Q: the GameSessions whose quit()/end()
\* throws during this handler. Every call is recorded in m.calls (history).
Call(m, botId, ret, after) ==
  [botId |-> botId, ret |-> ret, again |-> botId \in m.called,
   found |-> botId \in DOMAIN m.activeBots,
   id |-> IF botId \in DOMAIN m.activeBots THEN m.activeBots[botId] ELSE NoSid,
   changed |-> after.activeBots # m.activeBots \/ after.store # m.store,
   left |-> botId \in DOMAIN after.activeBots,
   connected |-> /\ botId \in DOMAIN m.activeBots
                 /\ after.store[m.activeBots[botId]].connected]

disconnectBot(m, botId, Q) ==
  IF botId \notin DOMAIN m.activeBots
  THEN [m EXCEPT !.calls = Append(@, Call(m, botId, FALSE, m)),
                 !.called = @ \cup {botId}]
  ELSE LET sid == m.activeBots[botId]
           g == m.sessions[sid].bot
           quit == [m EXCEPT !.gs[g] = EndGs(g, @),
                             !.activeBots = Del(@, botId),
                             !.store = updateBot(@, sid, "connected", FALSE)]
       IN IF g \in Q
          THEN \* quit() threw: caught, nothing removed
               [m EXCEPT !.calls = Append(@, Call(m, botId, FALSE, m)),
                         !.called = @ \cup {botId}]
          ELSE [quit EXCEPT !.calls = Append(@, Call(m, botId, TRUE, quit)),
                            !.called = @ \cup {botId}]

\* mineflayer.createBot(...): a fresh GameSession, connecting, no handlers yet.
NewGs(version) ==
  [version |-> version, phase |-> "connecting", entity |-> FALSE, ended |-> "no",
   attached |-> FALSE, botId |-> NoBot, clientId |-> 0, sid |-> NoSid,
   spawnOnce |-> FALSE, errorOnce |-> FALSE, controls |-> {}]

Timer(kind, g, version) == [kind |-> kind, g |-> g, version |-> version, at |-> now]
Delay(kind) ==
  CASE kind = "timeout" -> TimeoutDelay
    [] kind = "reconnect" -> ReconnectDelay
    [] OTHER -> JumpDelay

\* A timer fires after its delay: later than the clock value it was set at, and
\* after every timer that was set before it with a delay no longer than its own.
CanFire(i) ==
  /\ i \in 1..Len(timers)
  /\ now > timers[i].at
  /\ \A j \in 1..(i - 1) : Delay(timers[j].kind) > Delay(timers[i].kind)

RemoveAt(s, i) == SubSeq(s, 1, i - 1) \o SubSeq(s, i + 1, Len(s))
IsTimeoutOf(g, t) == t.kind = "timeout" /\ t.g = g
\* A clearTimeout that cancels nothing.
clearNothing(m, g) == m

\* A clearTimeout that cancels the timeouts of the other GameSessions.
clearOthers(m, g) ==
  LET Keep(t) == t.kind # "timeout" \/ t.g = g IN [m EXCEPT !.timers = SelectSeq(@, Keep)]

\* clearTimeout(connectionTimeout) of GameSession g's handlers
clearTimeout(m, g) ==
  LET Keep(t) == ~IsTimeoutOf(g, t) IN [m EXCEPT !.timers = SelectSeq(@, Keep)]

\* setupBotEventHandlers(bot, botId, clientId, activeBot): registers the handlers
\* on g (their closure is botId, clientId, the ActiveBot sid) and arms the
\* connection timeout.
setupBotEventHandlers(m, g, botId, clientId, sid) ==
  [m EXCEPT !.gs[g] = [@ EXCEPT !.attached = TRUE, !.botId = botId,
                                !.clientId = clientId, !.sid = sid,
                                !.spawnOnce = TRUE, !.errorOnce = TRUE],
            !.timers = Append(@, Timer("timeout", g, ""))]

\* ------------------------------------------------------------ bookkeeping
\* arg: the payload of the message handled, for the handlers that validate one;
\* action: the action of the `control` message handled; grounded: what its `jump`
\* read from bot.entity.onGround; err: err.message of the `error` handled.
NoArg == [botName |-> "", botCount |-> NoNum, serverIp |-> << >>]
Last(op, c, g, botId, calls, acted, uncaught) ==
  [op |-> op, c |-> c, g |-> g, botId |-> botId, arg |-> NoArg,
   cmds |-> << >>, ret |-> "none", threw |-> FALSE, action |-> "",
   grounded |-> FALSE, err |-> << >>, had |-> botId \in DOMAIN activeBots,
   id |-> IF botId \in DOMAIN activeBots THEN activeBots[botId] ELSE NoSid,
   calls |-> calls, acted |-> acted, uncaught |-> uncaught]
Done(op, c, g, botId, m, acted) ==
  last' = [Last(op, c, g, botId, m.calls, acted, FALSE)
             EXCEPT !.cmds = m.cmds, !.ret = m.ret, !.threw = m.threw,
                    !.action = m.action, !.grounded = m.grounded, !.err = m.err]

Open(c) == c \in DOMAIN readyState /\ readyState[c] = "OPEN"
SentTo(c) == LET To(p) == p.to = c IN Len(SelectSeq(pushes, To))
\* The environment feeds a handler that may push to c only while c's log has room.
Room(c) == ~Open(c) \/ SentTo(c) < MaxPush

Has(m, botId) == botId \in DOMAIN m.activeBots
BotOf(botId) ==
  IF botId \in DOMAIN activeBots THEN {sessions[activeBots[botId]].bot} ELSE {}
\* The choices of which quit()/end() calls throw, among the GameSessions in S.
Failing(S) == SUBSET S

IsReconnect(t) == t.kind = "reconnect"
\* GameSessions constructed, or to be constructed by a pending continuation or timer.
Reserved == Len(gs) + Len(inflight) + Len(SelectSeq(timers, IsReconnect))

\* While a createBot call is suspended at its await, only what the same turn of
\* the event loop can still run gets in: further messages of the same socket.
Idle == inflight = <<>>
SameTurn(c) == \A i \in 1..Len(inflight) : inflight[i].clientId = c

\* ------------------------------------------------------------------ Init
\* ------------------------------------- the browser's WebSocketProvider
\* The hook exists in two revisions, src/unnamed/part_007 and the later part of
\* src/unnamed/part_005; they differ in onclose. The ping interval, which touches
\* nothing below, is left out.
Revisions == {"part_005", "part_007"}
MAX_RECONNECT_ATTEMPTS == 5
MaxSockets == 7
MaxPromises == 2
null == 0

\* new WebSocket(wsUrl) with its connectionTimeout armed. `opened`: it reached
\* OPEN; `code`: the code close() was called with (0: none).
NewSocket ==
  [readyState |-> "CONNECTING", connectionTimeout |-> TRUE, opened |-> FALSE, code |-> 0]

\* The provider as mounted. `reconnects`: the reconnect timers still pending,
\* each named by the socket whose close armed it. History: `user` is the last
\* call the application made, `op`, `s` and `code` the step that ran last.
Mounted(revision) ==
  [revision |-> revision, socket |-> null, isConnecting |-> FALSE,
   connectionStatus |-> <<"disconnected">>, connectPromiseRef |-> null,
   reconnectTimeoutRef |-> null, reconnectAttemptsRef |-> 0,
   webSockets |-> << >>, promises |-> << >>, reconnects |-> {},
   user |-> "none", op |-> "mount", s |-> null, code |-> 0]

\* WebSocket.close(code): only a socket that is connecting or open starts closing.
wsClose(b, s, code) ==
  IF b.webSockets[s].readyState \in {"CONNECTING", "OPEN"}
  THEN [b EXCEPT !.webSockets[s].readyState = "CLOSING", !.webSockets[s].code = code]
  ELSE b

\* The code of the close event of an established socket closed by close():
\* the one given, 1005 when none was.
closeCode(ws) == IF ws.code = 0 THEN 1005 ELSE ws.code

\* connectPromiseRef.current.resolve / .reject, then the ref is cleared. A
\* promise keeps the first outcome; `calls` counts the resolve and reject calls.
settle(b, outcome) ==
  IF b.connectPromiseRef = null THEN b
  ELSE LET p == b.connectPromiseRef
       IN [b EXCEPT !.promises[p].state = IF @ = "pending" THEN outcome ELSE @,
                    !.promises[p].calls = @ + 1,
                    !.connectPromiseRef = null]

\* clearTimeout(reconnectTimeoutRef.current)
clearReconnect(b) == [b EXCEPT !.reconnects = @ \ {b.reconnectTimeoutRef}]

\* The cleanup of the effect on [socket], run when `socket` changes from `old`.
effectCleanup(b, old) ==
  clearReconnect(IF old # null THEN wsClose(b, old, 0) ELSE b)
Render(b) == IF b.socket # provider.socket THEN effectCleanup(b, provider.socket) ELSE b

\* createWebSocketConnection as the closure that saw `isConnecting`
createWebSocketConnection(b, isConnecting) ==
  IF isConnecting THEN b
  ELSE [b EXCEPT !.isConnecting = TRUE, !.connectionStatus = <<"connecting">>,
                 !.webSockets = Append(@, NewSocket)]

\* newSocket.onopen
onopen(b, s) ==
  settle([b EXCEPT !.webSockets[s].connectionTimeout = FALSE, !.socket = s,
                   !.isConnecting = FALSE, !.connectionStatus = <<"connected">>,
                   !.reconnectAttemptsRef = 0],
         "resolved")

\* newSocket.onerror
onerror(b, s) ==
  settle([b EXCEPT !.webSockets[s].connectionTimeout = FALSE,
                   !.connectionStatus = <<"error">>, !.isConnecting = FALSE],
         "rejected")

\* The close codes after which onclose reconnects.
shouldReconnect(revision, code) ==
  IF revision = "part_007" THEN code = 1006
  ELSE code \in {1006, 1012, 1013} \/ code = 1011

\* A reconnect limit that lets one attempt too many through.
belowLimitInclusive(attempts) == attempts <= MAX_RECONNECT_ATTEMPTS

belowLimit(attempts) == attempts < MAX_RECONNECT_ATTEMPTS

\* newSocket.onclose
onclose(b, s, code) ==
  LET b0 == [b EXCEPT !.socket = null, !.connectionStatus = <<"disconnected">>]
      b1 == IF b.revision = "part_005"
            THEN settle([b0 EXCEPT !.webSockets[s].connectionTimeout = FALSE], "rejected")
            ELSE b0
  IN IF ~shouldReconnect(b.revision, code) THEN b1
     ELSE IF belowLimit(b1.reconnectAttemptsRef)
     THEN [b1 EXCEPT !.reconnectAttemptsRef = @ + 1,
                     !.connectionStatus =
                        <<"reconnecting", b1.reconnectAttemptsRef + 1, MAX_RECONNECT_ATTEMPTS>>,
                     !.reconnectTimeoutRef = s,
                     !.reconnects = @ \cup {s}]
     ELSE LET b2 == [b1 EXCEPT !.connectionStatus = <<"max_reconnect_attempts">>]
          IN IF b.revision = "part_007" THEN settle(b2, "rejected") ELSE b2

\* The connectionTimeout callback of socket s
onConnectionTimeout(b, s) ==
  LET b0 == [b EXCEPT !.webSockets[s].connectionTimeout = FALSE]
  IN IF b.webSockets[s].readyState = "CONNECTING"
     THEN settle([wsClose(b0, s, 0) EXCEPT !.connectionStatus = <<"timeout">>,
                                           !.isConnecting = FALSE],
                 "rejected")
     ELSE b0

\* connect(), in the render that saw `socket` and `isConnecting`
connect(b) ==
  LET b0 == [b EXCEPT !.promises = Append(@, [state |-> "pending", calls |-> 0])]
      b1 == IF b.socket # null THEN wsClose(b0, b.socket, 0) ELSE b0
      b2 == IF b.reconnectTimeoutRef # null
            THEN [clearReconnect(b1) EXCEPT !.reconnectTimeoutRef = null]
            ELSE b1
      b3 == [b2 EXCEPT !.reconnectAttemptsRef = 0,
                       !.connectPromiseRef = Len(b0.promises)]
  IN createWebSocketConnection(b3, b.isConnecting)

\* disconnect(), in the render that saw `socket`
disconnect(b) ==
  LET b1 == IF b.reconnectTimeoutRef # null
            THEN [clearReconnect(b) EXCEPT !.reconnectTimeoutRef = null]
            ELSE b
      b2 == IF b.socket # null
            THEN [wsClose(b1, b.socket, 1000) EXCEPT !.socket = null,
                                                    !.connectionStatus = <<"disconnected">>]
            ELSE b1
  IN [b2 EXCEPT !.reconnectAttemptsRef = 0]

InitManager ==
  /\ clients = << >>
  /\ clientSockets = {}
  /\ readyState = << >>
  /\ nextClient = 1
  /\ activeBots = << >>
  /\ sessions = << >>
  /\ store = << >>
  /\ currentId = 1
  /\ gs = << >>
  /\ timers = << >>
  /\ inflight = << >>
  /\ pushes = << >>
  /\ now = 0
  /\ called = {}
  /\ last = [op |-> "init", c |-> 0, g |-> 0, botId |-> NoBot, arg |-> NoArg,
             cmds |-> << >>, ret |-> "none", threw |-> FALSE, action |-> "",
             grounded |-> FALSE, err |-> << >>, had |-> FALSE,
             id |-> NoSid, calls |-> << >>, acted |-> FALSE, uncaught |-> FALSE]

Init == InitManager /\ provider = Mounted("part_007")

\* ------------------------------------------------------------- the clock
Tick ==
  /\ now < MaxClock
  /\ now' = now + 1
  /\ UNCHANGED << clients, clientSockets, readyState, nextClient, activeBots,
                  sessions, store, currentId, gs, timers, inflight, pushes,
                  called, last >>
  /\ UNCHANGED provider

\* ------------------------------------------------------- gateway: sockets
\* wss.on('connection'): welcome push, registerClient, clients.set
Connection ==
  /\ Idle
  /\ nextClient <= NumClients
  /\ LET c == nextClient IN
       /\ readyState' = Put(readyState, c, "OPEN")
       /\ clientSockets' = clientSockets \cup {c}
       /\ clients' = Put(clients, c, NoBot)
       /\ pushes' = Append(pushes, Push(c, "info", NoSid, "WebSocket connection established"))
       /\ nextClient' = c + 1
       /\ last' = Last("connection", c, 0, NoBot, << >>, TRUE, FALSE)
  /\ UNCHANGED << activeBots, sessions, store, currentId, gs, timers, inflight,
                  now, called >>
  /\ UNCHANGED provider

\* The browser goes away: the socket leaves OPEN before its `close` event.
SocketClosing(c) ==
  /\ Idle
  /\ Open(c)
  /\ readyState' = [readyState EXCEPT ![c] = "CLOSING"]
  /\ UNCHANGED << clients, clientSockets, nextClient, activeBots, sessions, store,
                  currentId, gs, timers, inflight, pushes, now, called, last >>
  /\ UNCHANGED provider

\* MinecraftBotManager.unregisterClient: disconnect every bot of the client.
RECURSIVE disconnectEach(_, _, _)
disconnectEach(m, ids, Q) ==
  IF ids = {} THEN m
  ELSE LET b == CHOOSE x \in ids : TRUE
       IN disconnectEach(disconnectBot(m, b, Q), ids \ {b}, Q)

OwnedBy(m, c) == {b \in DOMAIN m.activeBots : m.sessions[m.activeBots[b]].clientId = c}
unregisterClient(m, c, Q) == disconnectEach(m, OwnedBy(m, c), Q)

\* socket.on('close')
SocketClose(c) ==
  /\ Idle
  /\ c \in DOMAIN clients
  /\ readyState[c] = "CLOSING"
  /\ \E Q \in Failing(UNION {BotOf(b) : b \in OwnedBy(M, c) \cup {clients[c]}}) :
       LET m1 == IF clients[c] # NoBot THEN disconnectBot(M, clients[c], Q) ELSE M
           m2 == unregisterClient(m1, c, Q)
       IN /\ Commit(m2)
          /\ Done("close", c, 0, clients[c], m2, TRUE)
  /\ readyState' = [readyState EXCEPT ![c] = "CLOSED"]
  /\ clientSockets' = clientSockets \ {c}
  /\ clients' = Del(clients, c)
  /\ UNCHANGED << nextClient, currentId, inflight, now >>
  /\ UNCHANGED provider

\* MinecraftBotManager.disconnectAllBots
disconnectAllBots(m, Q) == disconnectEach(m, DOMAIN m.activeBots, Q)

\* httpServer.on('close'): disconnect all bots.
ServerClose ==
  /\ Idle
  /\ \E Q \in Failing(UNION {BotOf(b) : b \in DOMAIN activeBots}) :
       LET m == disconnectAllBots(M, Q)
       IN Commit(m) /\ Done("serverClose", 0, 0, NoBot, m, TRUE)
  /\ UNCHANGED << clients, clientSockets, readyState, nextClient, currentId,
                  inflight, now >>
  /\ UNCHANGED provider

\* ------------------------------------------------------ gateway: messages
\* connectionSchema.safeParse(message.data)
\* The payloads a browser may send: the valid one, and payloads that differ from
\* it in the name, in the count or in the address.
ValidPayload == [botName |-> "Scout", botCount |-> Num(1, 0), serverIp |-> PlayExample]
ConnectPayloads ==
  { [ValidPayload EXCEPT !.botName = n] : n \in Names \cup {"ab"} }
    \cup { [ValidPayload EXCEPT !.botCount = n] : n \in {Num(10, 0), Num(11, 0), Num(0, 0), Num(1, 5)} }
    \cup { [ValidPayload EXCEPT !.serverIp = a] : a \in Addresses }
\* The schema without its address pattern.
connectionSchemaAnyAddress(data) ==
  /\ Len(data.botName) >= 3
  /\ IsInteger(data.botCount) /\ data.botCount.whole >= 1 /\ data.botCount.whole <= 10

connectionSchema(data) ==
  /\ Len(data.botName) >= 3
  /\ IsInteger(data.botCount) /\ data.botCount.whole >= 1 /\ data.botCount.whole <= 10
  /\ MatchesAddress(data.serverIp)

\* serverAddress.split(':'): the parts before the first and the second colon.
Colons(s) == {k \in 1..Len(s) : s[k] = ":"}
ColonAfter(s, from) ==
  IF \E k \in Colons(s) : k > from
  THEN CHOOSE k \in Colons(s) : k > from /\ \A x \in Colons(s) : x > from => k <= x
  ELSE Len(s) + 1
HostPart(s) == SubSeq(s, 1, ColonAfter(s, 0) - 1)
PortPart(s) == SubSeq(s, ColonAfter(s, 0) + 1, ColonAfter(s, ColonAfter(s, 0)) - 1)
\* parseInt(text, 10) of a text without sign or blanks: the value of its leading
\* digits, NaN when it has none.
NaN == 0 - 1
DigitValue(ch) == (CHOOSE i \in 1..Len(DigitChars) : DigitChars[i] = ch) - 1
RECURSIVE DigitsValue(_, _)
DigitsValue(s, acc) ==
  IF s = << >> \/ Head(s) \notin Digits THEN acc
  ELSE DigitsValue(Tail(s), 10 * acc + DigitValue(Head(s)))
parseInt(s) == IF s = << >> \/ Head(s) \notin Digits THEN NaN ELSE DigitsValue(s, 0)
\* A parse that takes the whole address as the host.
ParseAddressWhole(s) == [server |-> s, port |-> DefaultPort]

\* createBot, lines 43-51: the host and the port of a server address.
ParseAddress(s) ==
  IF Colons(s) = {} THEN [server |-> s, port |-> DefaultPort]
  ELSE [server |-> HostPart(s), port |-> parseInt(PortPart(s))]

\* MemStorage.createBot
createBotRecord(st, id, name, server) ==
  Put(st, id, [name |-> name, server |-> server, connected |-> FALSE,
               health |-> DefaultHealth, food |-> DefaultHealth])

\* case 'connect', up to the await inside createBot: validation, the botId, and
\* the synchronous part of storage.createBot.
MsgConnect(c, data) ==
  /\ SameTurn(c)
  /\ Open(c) /\ c \in DOMAIN clients
  /\ IF ~connectionSchema(data)
     THEN /\ SentTo(c) < MaxPush
          /\ pushes' = Append(pushes, Push(c, "error", NoSid, "Invalid connection details"))
          /\ last' = [Last("connect-invalid", c, 0, NoBot, << >>, FALSE, FALSE)
                        EXCEPT !.arg = data]
          /\ UNCHANGED << store, currentId, inflight >>
     ELSE /\ currentId <= MaxBots
          /\ Reserved < MaxGs
          /\ store' = createBotRecord(store, currentId, data.botName, data.serverIp)
          /\ currentId' = currentId + 1
          /\ inflight' = Append(inflight,
                [clientId |-> c, botName |-> data.botName,
                 server |-> ParseAddress(data.serverIp).server,
                 port |-> ParseAddress(data.serverIp).port,
                 botId |-> MakeBotId(data.botName, now), id |-> currentId])
          /\ last' = [Last("connect", c, 0, MakeBotId(data.botName, now), << >>, TRUE, FALSE)
                        EXCEPT !.arg = data]
          /\ UNCHANGED pushes
  /\ UNCHANGED << clients, clientSockets, readyState, nextClient, activeBots,
                  sessions, gs, timers, now, called >>
  /\ UNCHANGED provider

\* createBot after the await, and the rest of case 'connect'. throws: whether
\* mineflayer.createBot throws.
CreateBotResume(throws) ==
  /\ inflight # << >>
  /\ LET k == Head(inflight)
         c == k.clientId
         g == Len(gs) + 1
         m1 == sendToClient(M, c, Push(c, "connected", k.id, "Attempting to connect to server..."))
     IN IF throws
        THEN LET m2 == socketSend(m1, c, Push(c, "error", k.id, "Failed to create bot"))
             IN /\ Commit(m2)
                /\ last' = [Last("createBot-failed", c, 0, k.botId, << >>, FALSE, FALSE)
                              EXCEPT !.id = k.id]
                /\ UNCHANGED clients
        ELSE LET ab == [name |-> k.botName, bot |-> g, server |-> k.server,
                        port |-> k.port,
                        clientId |-> c, health |-> Num(DefaultHealth, 0),
                        food |-> Num(DefaultHealth, 0), chatMessages |-> << >>]
                 m2 == [m1 EXCEPT !.gs = Append(@, NewGs(DefaultVersion)),
                                  !.sessions = Put(@, k.id, ab),
                                  !.activeBots = Put(@, k.botId, k.id),
                                  !.called = @ \ {k.botId}]
                 m3 == setupBotEventHandlers(m2, g, k.botId, c, k.id)
             IN /\ Commit(m3)
                /\ Done("createBot", c, g, k.botId, m3, TRUE)
                /\ clients' = IF c \in DOMAIN clients
                              THEN [clients EXCEPT ![c] = k.botId] ELSE clients
  /\ inflight' = Tail(inflight)
  /\ UNCHANGED << clientSockets, readyState, nextClient, currentId, now >>
  /\ UNCHANGED provider

\* case 'disconnect' (ack = TRUE) and case 'cancel' (ack = FALSE)
MsgDisconnect(c, ack) ==
  /\ SameTurn(c)
  /\ Open(c) /\ c \in DOMAIN clients
  /\ ack => SentTo(c) < MaxPush
  /\ IF clients[c] # NoBot
     THEN \E Q \in Failing(BotOf(clients[c])) :
            LET m1 == disconnectBot(M, clients[c], Q)
                m2 == IF ack THEN socketSend(m1, c, Push(c, "disconnected", NoSid, ""))
                      ELSE m1
            IN /\ Commit(m2)
               /\ Done(IF ack THEN "disconnect" ELSE "cancel", c, 0, clients[c], m2, TRUE)
               /\ clients' = [clients EXCEPT ![c] = NoBot]
     ELSE /\ Commit(M)
          /\ Done(IF ack THEN "disconnect" ELSE "cancel", c, 0, NoBot, M, FALSE)
          /\ UNCHANGED clients
  /\ UNCHANGED << clientSockets, readyState, nextClient, currentId, inflight, now >>
  /\ UNCHANGED provider

\* MinecraftBotManager.getBotInfo
getBotInfo(m, botId) ==
  IF ~Has(m, botId) THEN [found |-> FALSE, health |-> NoNum, food |-> NoNum]
  ELSE [found |-> TRUE, health |-> m.sessions[m.activeBots[botId]].health,
        food |-> m.sessions[m.activeBots[botId]].food]

\* case 'getBotInfo'
MsgGetBotInfo(c) ==
  /\ SameTurn(c)
  /\ Open(c) /\ c \in DOMAIN clients
  /\ SentTo(c) < MaxPush
  /\ clients[c] # NoBot
  /\ LET info == getBotInfo(M, clients[c])
         m1 == IF info.found
               THEN socketSend(M, c, [Push(c, "botInfo", activeBots[clients[c]], "")
                                        EXCEPT !.health = info.health, !.food = info.food])
               ELSE M
     IN /\ Commit(m1)
        /\ Done("getBotInfo", c, 0, clients[c], m1, info.found)
  /\ UNCHANGED << clients, clientSockets, readyState, nextClient, currentId,
                  inflight, now >>
  /\ UNCHANGED provider

\* ------------------------------------------------------ manager: control
\* What controlBot and the jump timer call on the GameSession.
SetControl(control, state) == [call |-> "setControlState", control |-> control, state |-> state]
Plain(call) == [call |-> call, control |-> "", state |-> FALSE]
KnownActions == {"forward", "backward", "left", "right", "stop", "jump", "attack", "use"}
Actions == KnownActions \cup {"dance", "sprint"}
\* A `jump` that sets the intent whether the agent is grounded or not.
JumpCommandsAlways(grounded) == << SetControl("jump", TRUE) >>

\* case 'jump': the intent is set only when bot.entity.onGround.
JumpCommands(grounded) == IF grounded THEN << SetControl("jump", TRUE) >> ELSE << >>

\* The calls of one action when an action the switch does not know stops the bot.
CommandsUnknownStops(action, grounded, target) ==
  CASE action = "forward" -> << Plain("clearControlStates"), SetControl("forward", TRUE) >>
    [] action = "backward" -> << Plain("clearControlStates"), SetControl("back", TRUE) >>
    [] action = "left" -> << Plain("clearControlStates"), SetControl("left", TRUE) >>
    [] action = "right" -> << Plain("clearControlStates"), SetControl("right", TRUE) >>
    [] action = "jump" -> JumpCommands(grounded)
    [] action = "attack" ->
         IF target THEN << Plain("nearestEntity"), Plain("attack") >>
         ELSE << Plain("nearestEntity") >>
    [] action = "use" -> << Plain("activateItem") >>
    [] OTHER -> << Plain("clearControlStates") >>

\* The calls of one action when the directional actions set their intent
\* without clearing the others first.
CommandsNoClear(action, grounded, target) ==
  CASE action = "forward" -> << SetControl("forward", TRUE) >>
    [] action = "backward" -> << SetControl("back", TRUE) >>
    [] action = "left" -> << SetControl("left", TRUE) >>
    [] action = "right" -> << SetControl("right", TRUE) >>
    [] action = "stop" -> << Plain("clearControlStates") >>
    [] action = "jump" -> JumpCommands(grounded)
    [] action = "attack" ->
         IF target THEN << Plain("nearestEntity"), Plain("attack") >>
         ELSE << Plain("nearestEntity") >>
    [] action = "use" -> << Plain("activateItem") >>
    [] OTHER -> << >>

\* The calls of one action, in order. grounded: bot.entity.onGround; target:
\* whether bot.nearestEntity() finds an entity.
Commands(action, grounded, target) ==
  CASE action = "forward" -> << Plain("clearControlStates"), SetControl("forward", TRUE) >>
    [] action = "backward" -> << Plain("clearControlStates"), SetControl("back", TRUE) >>
    [] action = "left" -> << Plain("clearControlStates"), SetControl("left", TRUE) >>
    [] action = "right" -> << Plain("clearControlStates"), SetControl("right", TRUE) >>
    [] action = "stop" -> << Plain("clearControlStates") >>
    [] action = "jump" -> JumpCommands(grounded)
    [] action = "attack" ->
         IF target THEN << Plain("nearestEntity"), Plain("attack") >>
         ELSE << Plain("nearestEntity") >>
    [] action = "use" -> << Plain("activateItem") >>
    [] OTHER -> << >>
\* The control states of a GameSession after one call.
Effect(controls, cmd) ==
  CASE cmd.call = "clearControlStates" -> {}
    [] cmd.call = "setControlState" ->
         IF cmd.state THEN controls \cup {cmd.control} ELSE controls \ {cmd.control}
    [] OTHER -> controls
RECURSIVE RunCommands(_, _)
RunCommands(controls, cmds) ==
  IF cmds = << >> THEN controls
  ELSE RunCommands(Effect(controls, Head(cmds)), Tail(cmds))

\* MinecraftBotManager.controlBot. throwsAt: which of the calls throws (0: none).
\* Reading bot.entity.onGround throws while the GameSession has no entity.
controlBot(m, botId, action, grounded, target, throwsAt) ==
  IF ~Has(m, botId) THEN [m EXCEPT !.ret = "false", !.action = action]
  ELSE LET g == m.sessions[m.activeBots[botId]].bot
           noEntity == action = "jump" /\ ~m.gs[g].entity
           cmds == IF noEntity THEN << >> ELSE Commands(action, grounded, target)
           threw == noEntity \/ (throwsAt >= 1 /\ throwsAt <= Len(cmds))
           issued == IF threw /\ ~noEntity THEN SubSeq(cmds, 1, throwsAt) ELSE cmds
           done == IF threw /\ ~noEntity THEN SubSeq(cmds, 1, throwsAt - 1) ELSE cmds
           m1 == [m EXCEPT !.gs[g].controls = RunCommands(@, done),
                           !.cmds = @ \o issued,
                           !.ret = IF threw THEN "false" ELSE "true",
                           !.threw = threw,
                           !.action = action,
                           !.grounded = action = "jump" /\ ~noEntity /\ grounded]
       IN IF action = "jump" /\ grounded /\ ~threw
          THEN [m1 EXCEPT !.timers = Append(@, Timer("jump", g, ""))]
          ELSE m1

\* A sendChatMessage that reports success whatever bot.chat does.
sendChatUnchecked(m, botId, throws) ==
  IF ~Has(m, botId) THEN [m EXCEPT !.ret = "false"]
  ELSE [m EXCEPT !.cmds = Append(@, Plain("chat")), !.ret = "true", !.threw = throws]

\* MinecraftBotManager.sendChatMessage. throws: whether bot.chat throws.
sendChatMessage(m, botId, throws) ==
  IF ~Has(m, botId) THEN [m EXCEPT !.ret = "false"]
  ELSE [m EXCEPT !.cmds = Append(@, Plain("chat")),
                 !.ret = IF throws THEN "false" ELSE "true",
                 !.threw = throws]

IsJump(t) == t.kind = "jump"
\* case 'control'
MsgControl(c, action, grounded, target, throwsAt) ==
  /\ SameTurn(c)
  /\ Open(c) /\ c \in DOMAIN clients
  /\ clients[c] # NoBot
  /\ Len(SelectSeq(timers, IsJump)) < MaxJumps
  /\ LET m == controlBot(M, clients[c], action, grounded, target, throwsAt)
     IN Commit(m) /\ Done("control", c, 0, clients[c], m, Has(M, clients[c]))
  /\ UNCHANGED << clients, clientSockets, readyState, nextClient, currentId,
                  inflight, now >>
  /\ UNCHANGED provider

\* case 'chat'
MsgChat(c, throws) ==
  /\ SameTurn(c)
  /\ Open(c) /\ c \in DOMAIN clients
  /\ clients[c] # NoBot
  /\ LET m == sendChatMessage(M, clients[c], throws)
     IN Commit(m) /\ Done("chat", c, 0, clients[c], m, Has(M, clients[c]))
  /\ UNCHANGED << clients, clientSockets, readyState, nextClient, currentId,
                  inflight, now >>
  /\ UNCHANGED provider

\* The callback of the jump timer timers[i]: bot.setControlState('jump', false).
\* throws: whether the call throws (nothing catches it here).
OnJumpClear(i, throws) ==
  /\ Idle
  /\ CanFire(i) /\ timers[i].kind = "jump"
  /\ LET g == timers[i].g
         m0 == [M EXCEPT !.timers = RemoveAt(@, i),
                         !.cmds = << SetControl("jump", FALSE) >>]
         m1 == [m0 EXCEPT !.gs[g].controls = Effect(@, SetControl("jump", FALSE))]
         m == IF throws THEN m0 ELSE m1
     IN /\ Commit(m)
        /\ last' = [Last("jumpClear", gs[g].clientId, g, gs[g].botId, << >>, TRUE, throws)
                      EXCEPT !.cmds = m.cmds]
  /\ UNCHANGED << clients, clientSockets, readyState, nextClient, currentId,
                  inflight, now >>
  /\ UNCHANGED provider

\* A message whose payload JSON.parse rejects.
MsgMalformed(c) ==
  /\ SameTurn(c)
  /\ Open(c) /\ c \in DOMAIN clients
  /\ SentTo(c) < MaxPush
  /\ LET m1 == socketSend(M, c, Push(c, "error", NoSid, "Invalid message format"))
     IN Commit(m1) /\ Done("malformed", c, 0, NoBot, m1, FALSE)
  /\ UNCHANGED << clients, clientSockets, readyState, nextClient, currentId,
                  inflight, now >>
  /\ UNCHANGED provider

\* ------------------------------------------------- GameSession: lifecycle
Live(g) == g \in 1..Len(gs) /\ gs[g].ended = "no"
Emitting(g) == g \in 1..Len(gs) /\ gs[g].ended # "yes"

\* bot.once('login'): logs only. The GameSession has its entity from here on.
OnLogin(g) ==
  /\ Idle
  /\ Live(g) /\ gs[g].phase = "connecting"
  /\ gs' = [gs EXCEPT ![g].phase = "login", ![g].entity = TRUE]
  /\ last' = Last("login", gs[g].clientId, g, gs[g].botId, << >>, gs[g].attached, FALSE)
  /\ UNCHANGED << clients, clientSockets, readyState, nextClient, activeBots,
                  sessions, store, currentId, timers, inflight, pushes, now, called >>
  /\ UNCHANGED provider

\* bot.once('spawn')
OnSpawn(g) ==
  /\ Idle
  /\ Live(g) /\ gs[g].phase = "login"
  /\ Room(gs[g].clientId)
  /\ LET h == gs[g]
         m0 == [M EXCEPT !.gs[g].phase = "spawned"]
         m1 == sendToClient(m0, h.clientId, Push(h.clientId, "connected", h.sid, ""))
         m2 == [m1 EXCEPT !.store = updateBot(@, h.sid, "connected", TRUE)]
         m3 == [clearTimeout(m2, g) EXCEPT !.gs[g].spawnOnce = FALSE]
         m == IF h.attached /\ h.spawnOnce THEN m3 ELSE m0
     IN Commit(m) /\ Done("spawn", h.clientId, g, h.botId, m, h.attached /\ h.spawnOnce)
  /\ UNCHANGED << clients, clientSockets, readyState, nextClient, currentId,
                  inflight, now >>
  /\ UNCHANGED provider

\* bot.on('end')
OnEnd(g) ==
  /\ Idle
  /\ Emitting(g)
  /\ Room(gs[g].clientId)
  /\ LET h == gs[g]
         m0 == [M EXCEPT !.gs[g].ended = "yes"]
     IN IF h.attached
        THEN \E Q \in Failing(BotOf(h.botId)) :
               LET m1 == sendToClient(m0, h.clientId,
                                      Push(h.clientId, "error", h.sid, "Bot disconnected"))
                   m2 == disconnectBot(m1, h.botId, Q)
               IN Commit(m2) /\ Done("end", h.clientId, g, h.botId, m2, TRUE)
        ELSE Commit(m0) /\ Done("end", h.clientId, g, h.botId, m0, FALSE)
  /\ UNCHANGED << clients, clientSockets, readyState, nextClient, currentId,
                  inflight, now >>
  /\ UNCHANGED provider

\* The connectionTimeout callback of GameSession timers[i].g
OnTimeout(i) ==
  /\ Idle
  /\ CanFire(i) /\ timers[i].kind = "timeout"
  /\ Room(gs[timers[i].g].clientId)
  /\ LET g == timers[i].g
         h == gs[g]
         m0 == [M EXCEPT !.timers = RemoveAt(@, i)]
         acts == Has(M, h.botId) /\ ~h.entity
     IN IF acts
        THEN \E Q \in Failing(BotOf(h.botId)) :
               LET m1 == sendToClient(m0, h.clientId,
                                      Push(h.clientId, "error", h.sid, "Connection timed out"))
                   m2 == disconnectBot(m1, h.botId, Q)
               IN Commit(m2) /\ Done("timeout", h.clientId, g, h.botId, m2, TRUE)
        ELSE Commit(m0) /\ Done("timeout", h.clientId, g, h.botId, m0, FALSE)
  /\ UNCHANGED << clients, clientSockets, readyState, nextClient, currentId,
                  inflight, now >>
  /\ UNCHANGED provider

\* --------------------------------------------------- GameSession: status
\* bot.on('health'); report = <<bot.health, bot.food>>
OnHealth(g, report) ==
  /\ Idle
  /\ Emitting(g) /\ gs[g].phase = "spawned" /\ gs[g].attached
  /\ Room(gs[g].clientId)
  /\ LET h == gs[g]
         m1 == [M EXCEPT !.sessions[h.sid].health = report[1],
                         !.sessions[h.sid].food = report[2]]
         m2 == [m1 EXCEPT !.store =
                  updateBot(updateBot(@, h.sid, "health", MathRound(report[1])),
                            h.sid, "food", MathRound(report[2]))]
         m3 == sendToClient(m2, h.clientId,
                 [Push(h.clientId, "botInfo", h.sid, "")
                    EXCEPT !.health = report[1], !.food = report[2]])
         m == IF Has(M, h.botId) THEN m3 ELSE M
     IN Commit(m) /\ Done("health", h.clientId, g, h.botId, m, Has(M, h.botId))
  /\ UNCHANGED << clients, clientSockets, readyState, nextClient, currentId,
                  inflight, now >>
  /\ UNCHANGED provider

\* The chat history after one more entry: push, then shift when over the limit.
pushChatOffByOne(history, entry) ==
  LET pushed == Append(history, entry)
  IN IF Len(pushed) > ChatLimit + 1 THEN Tail(pushed) ELSE pushed

pushChat(history, entry) ==
  LET pushed == Append(history, entry)
  IN IF Len(pushed) > ChatLimit THEN Tail(pushed) ELSE pushed

\* bot.on('message'); hasUsername: whether the message object has a `username`
\* property of its own; text: message.toString()
ChatEntry(hasUsername, username, text) ==
  [username |-> IF hasUsername THEN username ELSE "SERVER", content |-> text,
   timestamp |-> now]

onMessage(m, g, hasUsername, username, text) ==
  LET h == m.gs[g]
      entry == ChatEntry(hasUsername, username, text)
      m1 == IF Has(m, h.botId)
            THEN [m EXCEPT !.sessions[h.sid].chatMessages = pushChat(@, entry)]
            ELSE m
  IN sendToClient(m1, h.clientId, [Push(h.clientId, "chat", h.sid, "") EXCEPT !.msg = entry])

Message(g, hasUsername, text) ==
  /\ Idle
  /\ Emitting(g) /\ gs[g].phase # "connecting" /\ gs[g].attached
  /\ LET m == onMessage(M, g, hasUsername, "Steve", text)
     IN Commit(m) /\ Done("message", gs[g].clientId, g, gs[g].botId, m, Has(M, gs[g].botId))
  /\ UNCHANGED << clients, clientSockets, readyState, nextClient, currentId,
                  inflight, now >>
  /\ UNCHANGED provider

\* A chat event, fed while the session's history and the client's log are short.
ChatTexts == 1..2
OnMessage(g, hasUsername, text) ==
  /\ g \in 1..Len(gs)
  /\ Room(gs[g].clientId)
  /\ Len(sessions[gs[g].sid].chatMessages) < MaxChat
  /\ Message(g, hasUsername, text)

\* The n-th chat event of a long run of them: its text is n, and every second
\* one carries a username.
IsChatPush(p) == p.type = "chat"
OnChatEvent(g) ==
  LET n == Len(SelectSeq(pushes, IsChatPush)) + 1
  IN n <= MaxChatEvents /\ Message(g, n % 2 = 0, n)

\* ---------------------------------------------------- GameSession: kicked
RECURSIVE Join(_, _)
Join(parts, sep) ==
  IF parts = << >> THEN ""
  ELSE IF Len(parts) = 1 THEN parts[1]
  ELSE parts[1] \o sep \o Join(Tail(parts), sep)

\* A kick reason: a string, null, or an object that may carry `text`,
\* `translate` and `with` (withIsArray: `with` has a join method).
Reason(kind, text, translate, hasWith, with, withIsArray) ==
  [kind |-> kind, text |-> text, translate |-> translate, hasWith |-> hasWith,
   with |-> with, withIsArray |-> withIsArray]
KickReasons ==
  { Reason("string", "Banned", "", FALSE, << >>, FALSE),
    Reason("object", "", "multiplayer.disconnected.generic", TRUE, <<"Server", "closed">>, TRUE),
    Reason("object", "flying", "", FALSE, << >>, FALSE),
    Reason("object", "", "disconnect.spam", TRUE, << >>, FALSE) }

\* JSON.stringify of a reason object: the properties it has.
Stringify(reason) ==
  "{" \o (IF reason.text # "" THEN "\"text\":\"" \o reason.text \o "\"" ELSE "")
      \o (IF reason.translate # "" THEN "\"translate\":\"" \o reason.translate \o "\"" ELSE "")
      \o "}"

decodeKick(reason) ==
  CASE reason.kind = "string" -> reason.text
    [] reason.kind = "null" -> "Unknown kick reason"
    [] OTHER ->
       IF reason.translate # "" /\ reason.hasWith
       THEN IF reason.withIsArray
            THEN reason.translate \o ": " \o Join(reason.with, " ")
            ELSE "Unknown kick reason"
       ELSE Stringify(reason)

\* bot.on('kicked')
OnKicked(g, reason) ==
  /\ Idle
  /\ Live(g) /\ gs[g].attached
  /\ Room(gs[g].clientId)
  /\ \E Q \in Failing(BotOf(gs[g].botId)) :
       LET h == gs[g]
           m1 == sendToClient(M, h.clientId,
                   Push(h.clientId, "error", h.sid,
                        "Kicked from server: " \o decodeKick(reason)))
           m2 == disconnectBot(m1, h.botId, Q)
       IN Commit(m2) /\ Done("kicked", h.clientId, g, h.botId, m2, TRUE)
  /\ UNCHANGED << clients, clientSockets, readyState, nextClient, currentId,
                  inflight, now >>
  /\ UNCHANGED provider

\* ----------------------------------------------------- GameSession: error
\* err.message as its words; String.includes looks for one of them.
Includes(msg, word) == \E i \in 1..Len(msg) : msg[i] = word
VersionWords == {"1.20.1"}
\* msg.match(/version ([0-9.]+)/): the number after the first "version " that has one
MatchAt(msg, i) == i < Len(msg) /\ msg[i] = "version" /\ msg[i + 1] \in VersionWords
VersionMatch(msg) ==
  IF \E i \in 1..Len(msg) : MatchAt(msg, i)
  THEN msg[(CHOOSE i \in 1..Len(msg) :
              MatchAt(msg, i) /\ \A j \in 1..(i - 1) : ~MatchAt(msg, j)) + 1]
  ELSE ""

ErrorMessages ==
  { <<"outdated", "server", "still", "on", "version", "1.20.1">>,
    <<"unsupported", "protocol", "version">>,
    <<"connect", "ECONNREFUSED">>,
    <<"read", "ECONNRESET">>,
    <<"read", "ETIMEDOUT">>,
    <<"getaddrinfo", "ENOTFOUND">>,
    <<"read", "ETIMEDOUT", "after", "ECONNRESET">>,
    <<"getaddrinfo", "ETIMEDOUT">>,
    <<"getaddrinfo", "ECONNREFUSED">>,
    <<"connect", "ECONNREFUSED", "version", "1.20.1">>,
    <<"socket", "hang", "up">> }

\* The classification with the timed-out category tested before the others.
errorMessageTimedOutFirst(msg) ==
  CASE Includes(msg, "ETIMEDOUT") -> "Connection timed out (network)"
    [] Includes(msg, "ECONNREFUSED") -> "Connection refused"
    [] Includes(msg, "ECONNRESET") -> "Connection reset by server"
    [] Includes(msg, "getaddrinfo") -> "Could not resolve server address"
    [] OTHER -> "Bot error: " \o Join(msg, " ")

errorMessage(msg) ==
  CASE Includes(msg, "ECONNREFUSED") -> "Connection refused"
    [] Includes(msg, "ECONNRESET") -> "Connection reset by server"
    [] Includes(msg, "ETIMEDOUT") -> "Connection timed out (network)"
    [] Includes(msg, "getaddrinfo") -> "Could not resolve server address"
    [] OTHER -> "Bot error: " \o Join(msg, " ")

\* bot.once('error') followed by bot.on('error'), in registration order.
\* endThrows: whether bot.end() throws inside the try of the version retry;
\* Q: the GameSessions whose quit() throws.
onError(m, g, msg, endThrows, Q) ==
  LET h == m.gs[g]
      m0 == IF h.errorOnce
            THEN [clearTimeout(m, g) EXCEPT !.gs[g].errorOnce = FALSE, !.err = msg]
            ELSE [m EXCEPT !.err = msg]
      version == VersionMatch(msg)
      retry == Includes(msg, "version") /\ version # ""
      m1 == IF retry
            THEN [sendToClient(m0, h.clientId,
                               Push(h.clientId, "error", h.sid, "Version mismatch"))
                    EXCEPT !.threw = endThrows]
            ELSE m0
      generic == disconnectBot(
                   sendToClient(m1, h.clientId,
                                Push(h.clientId, "error", h.sid, errorMessage(msg))),
                   h.botId, Q)
  IN IF retry /\ ~endThrows
     THEN [m1 EXCEPT !.gs[g] = EndGs(g, @),
                     !.timers = Append(@, Timer("reconnect", g, version))]
     ELSE generic

OnError(g, msg) ==
  /\ Idle
  /\ Emitting(g) /\ gs[g].attached
  /\ Room(gs[g].clientId)
  /\ VersionMatch(msg) # "" => Reserved < MaxGs
  /\ \E endThrows \in BOOLEAN, Q \in Failing(BotOf(gs[g].botId)) :
       LET m == onError(M, g, msg, endThrows, Q)
       IN Commit(m)
          /\ Done("error", gs[g].clientId, g, gs[g].botId, m,
                  Len(m.timers) > 0 /\ m.timers[Len(m.timers)].kind = "reconnect"
                    /\ Len(SelectSeq(m.timers, IsReconnect)) > Len(SelectSeq(timers, IsReconnect)))
  /\ UNCHANGED << clients, clientSockets, readyState, nextClient, currentId,
                  inflight, now >>
  /\ UNCHANGED provider

\* The reconnect callback set by the error handler of GameSession timers[i].g.
\* throws: whether mineflayer.createBot throws (nothing catches it here).
OnReconnect(i, throws) ==
  /\ Idle
  /\ CanFire(i) /\ timers[i].kind = "reconnect"
  /\ LET old == gs[timers[i].g]
         g == Len(gs) + 1
         m0 == [M EXCEPT !.timers = RemoveAt(@, i)]
         m1 == [m0 EXCEPT !.gs = Append(@, NewGs(timers[i].version))]
         m2 == setupBotEventHandlers([m1 EXCEPT !.sessions[old.sid].bot = g],
                                     g, old.botId, old.clientId, old.sid)
     IN IF throws
        THEN /\ Commit(m0)
             /\ last' = [Last("reconnect", old.clientId, 0, old.botId, << >>, FALSE, TRUE)
                           EXCEPT !.threw = TRUE]
        ELSE IF Has(M, old.botId)
             THEN Commit(m2) /\ Done("reconnect", old.clientId, g, old.botId, m2, TRUE)
             ELSE Commit(m1) /\ Done("reconnect", old.clientId, g, old.botId, m1, FALSE)
  /\ UNCHANGED << clients, clientSockets, readyState, nextClient, currentId,
                  inflight, now >>
  /\ UNCHANGED provider

\* ------------------------------------------------------------------ Next
Next ==
  \/ Tick
  \/ Connection
  \/ \E c \in ClientIds : SocketClosing(c)
  \/ \E c \in ClientIds : SocketClose(c)
  \/ ServerClose
  \/ \E c \in ClientIds, data \in ConnectPayloads : MsgConnect(c, data)
  \/ \E throws \in BOOLEAN : CreateBotResume(throws)
  \/ \E c \in ClientIds, ack \in BOOLEAN : MsgDisconnect(c, ack)
  \/ \E c \in ClientIds : MsgGetBotInfo(c)
  \/ \E c \in ClientIds : MsgMalformed(c)
  \/ \E c \in ClientIds, action \in Actions, grounded, target \in BOOLEAN, throwsAt \in 0..2 :
       MsgControl(c, action, grounded, target, throwsAt)
  \/ \E c \in ClientIds, throws \in BOOLEAN : MsgChat(c, throws)
  \/ \E i \in 1..Len(timers), throws \in BOOLEAN : OnJumpClear(i, throws)
  \/ \E g \in GsIds : OnLogin(g)
  \/ \E g \in GsIds : OnSpawn(g)
  \/ \E g \in GsIds : OnEnd(g)
  \/ \E i \in 1..Len(timers) : OnTimeout(i)
  \/ \E g \in GsIds, report \in HealthReports : OnHealth(g, report)
  \/ \E g \in GsIds, u \in BOOLEAN, text \in ChatTexts : OnMessage(g, u, text)
  \/ \E g \in GsIds, reason \in KickReasons : OnKicked(g, reason)
  \/ \E g \in GsIds, msg \in ErrorMessages : OnError(g, msg)
  \/ \E i \in 1..Len(timers), throws \in BOOLEAN : OnReconnect(i, throws)

Spec == Init /\ [][Next]_vars

\* ------------------------------------------- focused environments
\* One browser, the session lifecycle: no status or chat traffic.
OutdatedServer == <<"outdated", "server", "still", "on", "version", "1.20.1">>
Refused == <<"connect", "ECONNREFUSED">>

\* One browser, one session, the version-mismatch retry and the timers.
NextRetry ==
  \/ Tick
  \/ nextClient = 1 /\ Connection
  \/ currentId = 1 /\ MsgConnect(1, ValidPayload)
  \/ CreateBotResume(FALSE)
  \/ \E g \in GsIds : OnLogin(g)
  \/ \E g \in GsIds : OnSpawn(g)
  \/ \E g \in GsIds : OnEnd(g)
  \/ \E i \in 1..Len(timers) : OnTimeout(i)
  \/ \E g \in GsIds, msg \in {OutdatedServer, Refused} : OnError(g, msg)
  \/ \E i \in 1..Len(timers), throws \in BOOLEAN : OnReconnect(i, throws)

SpecRetry == Init /\ [][NextRetry]_vars

\* One browser, one session, the retry that a version mismatch schedules and
\* the spawn of the replacement GameSession.
NextSpawn ==
  \/ Tick
  \/ nextClient = 1 /\ Connection
  \/ currentId = 1 /\ MsgConnect(1, ValidPayload)
  \/ CreateBotResume(FALSE)
  \/ \E g \in GsIds : OnLogin(g)
  \/ \E g \in GsIds : OnSpawn(g)
  \/ \E g \in GsIds : OnEnd(g)
  \/ \E i \in 1..Len(timers) : OnTimeout(i)
  \/ \E g \in GsIds : OnError(g, OutdatedServer)
  \/ \E i \in 1..Len(timers) : OnReconnect(i, FALSE)

SpecSpawn == Init /\ [][NextSpawn]_vars

\* One browser and what it can ask for: connect, disconnect, cancel, close.
NextClient ==
  \/ Tick
  \/ nextClient = 1 /\ Connection
  \/ SocketClosing(1)
  \/ SocketClose(1)
  \/ MsgConnect(1, ValidPayload)
  \/ \E throws \in BOOLEAN : CreateBotResume(throws)
  \/ \E ack \in BOOLEAN : MsgDisconnect(1, ack)
  \/ \E g \in GsIds : OnEnd(g)

SpecClient == Init /\ [][NextClient]_vars

\* One browser, one session, what the GameSession relays: status, chat, kick.
NextRelay ==
  \/ nextClient = 1 /\ Connection
  \/ currentId = 1 /\ MsgConnect(1, ValidPayload)
  \/ CreateBotResume(FALSE)
  \/ OnLogin(1)
  \/ OnSpawn(1)
  \/ \E report \in HealthReports : OnHealth(1, report)
  \/ \E text \in ChatTexts : OnMessage(1, text = 1, text)
  \/ \E reason \in KickReasons : OnKicked(1, reason)
  \/ OnEnd(1)
  \/ MsgGetBotInfo(1)

SpecRelay == Init /\ [][NextRelay]_vars

\* One browser, one session, a long run of chat events.
NextChat ==
  \/ nextClient = 1 /\ Connection
  \/ currentId = 1 /\ MsgConnect(1, ValidPayload)
  \/ CreateBotResume(FALSE)
  \/ OnLogin(1)
  \/ OnSpawn(1)
  \/ OnChatEvent(1)
  \/ MsgDisconnect(1, FALSE)

SpecChat == Init /\ [][NextChat]_vars

\* One browser and every message it can send, valid or not.
NextGateway ==
  \/ nextClient = 1 /\ Connection
  \/ \E data \in ConnectPayloads :
       (connectionSchema(data) => currentId = 1) /\ MsgConnect(1, data)
  \/ CreateBotResume(FALSE)
  \/ \E ack \in BOOLEAN : MsgDisconnect(1, ack)
  \/ MsgGetBotInfo(1)
  \/ MsgMalformed(1)

SpecGateway == Init /\ [][NextGateway]_vars

\* One browser, one session, its three kinds of timers and its teardown.
NextTimers ==
  \/ Tick
  \/ nextClient = 1 /\ Connection
  \/ currentId = 1 /\ MsgConnect(1, ValidPayload)
  \/ CreateBotResume(FALSE)
  \/ \E g \in GsIds : OnLogin(g)
  \/ \E g \in GsIds : OnSpawn(g)
  \/ SelectSeq(timers, IsJump) = << >> /\ MsgControl(1, "jump", TRUE, FALSE, 0)
  \/ MsgDisconnect(1, FALSE)
  \/ \E g \in GsIds : OnError(g, OutdatedServer)
  \/ \E g \in GsIds : OnEnd(g)
  \/ \E i \in 1..Len(timers) : OnTimeout(i)
  \/ \E i \in 1..Len(timers) : OnReconnect(i, FALSE)
  \/ \E i \in 1..Len(timers) : OnJumpClear(i, FALSE)

SpecTimers == Init /\ [][NextTimers]_vars

\* One browser, one session, the control and chat commands it sends.
NextControl ==
  \/ Tick
  \/ nextClient = 1 /\ Connection
  \/ currentId = 1 /\ MsgConnect(1, ValidPayload)
  \/ CreateBotResume(FALSE)
  \/ OnLogin(1)
  \/ OnSpawn(1)
  \/ \E action \in Actions, grounded, target \in BOOLEAN, throwsAt \in 0..2 :
       \* grounded and target are read by `jump` and `attack` only
       /\ action # "jump" => grounded
       /\ action # "attack" => target
       /\ throwsAt <= Len(Commands(action, grounded, target))
       /\ MsgControl(1, action, grounded, target, throwsAt)
  \/ \E throws \in BOOLEAN : MsgChat(1, throws)
  \/ \E i \in 1..Len(timers), throws \in BOOLEAN : OnJumpClear(i, throws)
  \/ OnEnd(1)

SpecControl == Init /\ [][NextControl]_vars

\* One browser that goes away while its session's GameSession still emits events.
NextDrop ==
  \/ nextClient = 1 /\ Connection
  \/ currentId = 1 /\ MsgConnect(1, ValidPayload)
  \/ CreateBotResume(FALSE)
  \/ OnLogin(1)
  \/ OnSpawn(1)
  \/ \E text \in ChatTexts : OnMessage(1, text = 1, text)
  \/ OnKicked(1, Reason("string", "Banned", "", FALSE, << >>, FALSE))
  \/ OnEnd(1)
  \/ SocketClosing(1)
  \/ SocketClose(1)

SpecDrop == Init /\ [][NextDrop]_vars

\* Two browsers, their sessions, and the shutdown of the server.
NextShutdown ==
  \/ Tick
  \/ Connection
  \/ \E c \in ClientIds : MsgConnect(c, ValidPayload)
  \/ CreateBotResume(FALSE)
  \/ \E g \in GsIds : OnEnd(g)
  \/ ServerClose

SpecShutdown == Init /\ [][NextShutdown]_vars

\* One browser, one session that stays, and every control action on it.
NextMove ==
  \/ Tick
  \/ nextClient = 1 /\ Connection
  \/ currentId = 1 /\ MsgConnect(1, ValidPayload)
  \/ CreateBotResume(FALSE)
  \/ OnLogin(1)
  \/ \E action \in Actions, grounded, target \in BOOLEAN, throwsAt \in 0..2 :
       /\ action # "jump" => grounded
       /\ action # "attack" => target
       /\ throwsAt <= Len(Commands(action, grounded, target))
       /\ MsgControl(1, action, grounded, target, throwsAt)
  \/ \E i \in 1..Len(timers) : OnJumpClear(i, FALSE)

SpecMove == Init /\ [][NextMove]_vars

\* One browser, one session, its jumps and their scheduled clears. The clock
\* advances and the event loop runs every timer that is due; the browser sends
\* no jump at the last clock value of the run.
NextJump ==
  \/ Tick
  \/ nextClient = 1 /\ Connection
  \/ currentId = 1 /\ MsgConnect(1, ValidPayload)
  \/ CreateBotResume(FALSE)
  \/ OnLogin(1)
  \/ \E grounded \in BOOLEAN, throwsAt \in 0..1 :
       /\ now < MaxClock
       /\ throwsAt <= Len(JumpCommands(grounded))
       /\ MsgControl(1, "jump", grounded, TRUE, throwsAt)
  \/ \E action \in {"left", "stop", "dance"} : MsgControl(1, action, TRUE, TRUE, 0)
  \/ MsgDisconnect(1, FALSE)
  \/ \E i \in 1..Len(timers) : OnJumpClear(i, FALSE)

JumpClearDue == \E i \in 1..Len(timers) : OnJumpClear(i, FALSE)
SpecJump ==
  Init /\ [][NextJump]_vars /\ WF_vars(Tick) /\ WF_vars(JumpClearDue)

\* One browser, one session, every kind of `error` as the first `error` of each
\* of its GameSessions.
NextErrors ==
  \/ Tick
  \/ nextClient = 1 /\ Connection
  \/ currentId = 1 /\ MsgConnect(1, ValidPayload)
  \/ CreateBotResume(FALSE)
  \/ \E g \in GsIds, msg \in ErrorMessages :
       g \in 1..Len(gs) /\ gs[g].errorOnce /\ OnError(g, msg)
  \/ \E i \in 1..Len(timers) : OnReconnect(i, FALSE)

SpecErrors == Init /\ [][NextErrors]_vars

\* Two browsers, a session each, and what tears a session down: cancel, kick,
\* `error`, `end`, timeout. Each session id sees one teardown.
Fresh(g) == g \in 1..Len(gs) /\ gs[g].botId \notin called
NextPair ==
  \/ Tick
  \/ Connection
  \/ \E c \in DOMAIN clients : clients[c] = NoBot /\ MsgConnect(c, ValidPayload)
  \/ CreateBotResume(FALSE)
  \/ \E g \in GsIds :
       Fresh(g) /\ OnKicked(g, Reason("string", "Banned", "", FALSE, << >>, FALSE))
  \/ \E g \in GsIds : Fresh(g) /\ OnError(g, Refused)
  \/ \E g \in GsIds : Fresh(g) /\ OnEnd(g)
  \/ \E i \in 1..Len(timers) : Fresh(timers[i].g) /\ OnTimeout(i)
  \/ \E c \in DOMAIN clients : clients[c] \notin called /\ MsgDisconnect(c, FALSE)

SpecPair == Init /\ [][NextPair]_vars

\* ================================================================ claims
RetryPending(g) == \E i \in 1..Len(timers) : timers[i].kind = "reconnect" /\ timers[i].g = g
NoQuitThrew == \A i \in 1..Len(last.calls) : last.calls[i].found => last.calls[i].ret

\* C1: from a version-mismatch error until the replacement GameSession is
\* installed, the session stays in the table, also when the old adapter's own
\* `end` event is delivered: the `end` handler of an adapter whose retry is
\* pending does not remove the session it found in the table.
C1_RetryKeepsSession ==
  \A g \in 1..Len(gs) :
    (RetryPending(g) /\ last.op = "end" /\ last.g = g /\ last.had)
      => gs[g].botId \in DOMAIN activeBots

\* C2: every client owns at most one entry of the session table.
C2_OneBotPerClient ==
  \A c \in ClientIds : Cardinality(OwnedBy(M, c)) <= 1

AttachedTo(botId) ==
  {g \in 1..Len(gs) : gs[g].attached /\ gs[g].botId = botId /\ gs[g].ended = "no"}
\* C3: a session in the table has at most one GameSession that is connected
\* (not asked to end) and has handlers acting on that session.
C3_OneGameSessionAttached ==
  \A botId \in DOMAIN activeBots : Cardinality(AttachedTo(botId)) <= 1

\* C4: when constructing the GameSession throws inside createBot, neither the
\* session table nor the persisted store holds an entry that call created.
C4_NoDanglingRecord ==
  last.op = "createBot-failed"
    => /\ last.id \notin DOMAIN store
       /\ \A botId \in DOMAIN activeBots : activeBots[botId] # last.id

IsKickPush(p) ==
  p.type = "error" /\ \E r \in KickReasons : p.text = "Kicked from server: " \o decodeKick(r)
\* C5: after the `error` push of a kick, the teardown of that session causes no
\* further `error` push: no "Bot disconnected" push of the session follows.
C5_NoErrorPushFromTeardown ==
  \A i, j \in 1..Len(pushes) :
    (i < j /\ IsKickPush(pushes[i]) /\ pushes[j].sid = pushes[i].sid)
      => ~(pushes[j].type = "error" /\ pushes[j].text = "Bot disconnected")

IsTimeoutPush(p) == p.type = "error" /\ p.text = "Connection timed out"
TimeoutPushes(sid) ==
  LET Mine(p) == IsTimeoutPush(p) /\ p.sid = sid IN Len(SelectSeq(pushes, Mine))
\* C6: when the connection timeout of a GameSession that has not spawned expires
\* while its session is in the table (and quit() does not throw), the session is
\* removed and its owner has received exactly one timeout push for it.
C6_TimeoutTearsDown ==
  (last.op = "timeout" /\ last.had /\ gs[last.g].phase # "spawned" /\ NoQuitThrew)
    => /\ last.botId \notin DOMAIN activeBots
       /\ TimeoutPushes(gs[last.g].sid) = 1

ChatBounded == \A sid \in DOMAIN sessions : Len(sessions[sid].chatMessages) <= ChatLimit
ChatFifo ==
  \A sid \in DOMAIN sessions :
    LET old == sessions[sid].chatMessages
        new == sessions'[sid].chatMessages
    IN (/\ last'.op = "message" /\ last'.acted /\ gs[last'.g].sid = sid
        /\ Len(old) = ChatLimit)
         => /\ Len(new) = ChatLimit
            /\ \A k \in 1..(ChatLimit - 1) : new[k] = old[k + 1]
            /\ new[ChatLimit] = pushes'[Len(pushes')].msg
            /\ new[ChatLimit].content = Len(SelectSeq(pushes, IsChatPush)) + 1
\* C7: no chat history is longer than ChatLimit entries, and a chat event on a
\* session in the table whose history is full drops exactly the oldest entry
\* and appends the new one (the one pushed to the client) at the end.
C7_ChatHistoryFifo == []ChatBounded /\ [][ChatFifo]_vars
\* A full history after two evictions: entries 3..ChatLimit+2 in arrival order.
C7_Witness ==
  \E sid \in DOMAIN sessions :
    /\ Len(sessions[sid].chatMessages) = ChatLimit
    /\ sessions[sid].chatMessages[1].content = 3
    /\ sessions[sid].chatMessages[ChatLimit].content = ChatLimit + 2

\* C8: in-memory, persisted and pushed health and food are integers in 0..20.
C8_StatusInRange ==
  /\ \A sid \in DOMAIN sessions :
       InGameRange(sessions[sid].health) /\ InGameRange(sessions[sid].food)
  /\ \A id \in DOMAIN store :
       /\ store[id].health >= 0 /\ store[id].health <= DefaultHealth
       /\ store[id].food >= 0 /\ store[id].food <= DefaultHealth
  /\ \A i \in 1..Len(pushes) :
       pushes[i].type = "botInfo"
         => InGameRange(pushes[i].health) /\ InGameRange(pushes[i].food)

\* C9: a disconnectBot call on an id it was already called on (and that was not
\* created again since) returns false and changes neither table nor store; a
\* call on an id that is not in the table returns false.
C9_DisconnectIdempotent ==
  \A i \in 1..Len(last.calls) :
    /\ last.calls[i].again => (~last.calls[i].ret /\ ~last.calls[i].changed)
    /\ ~last.calls[i].found => ~last.calls[i].ret

\* C10: a disconnectBot call on a session in the table leaves it absent from the
\* table and its persisted connected flag false, also when quit() throws.
C10_DisconnectRemoves ==
  \A i \in 1..Len(last.calls) :
    last.calls[i].found => (~last.calls[i].left /\ ~last.calls[i].connected)

\* A step in which the handler named op ran (the clock and a socket going away
\* leave `last` as it was).
Ran(op) == last'.op = op /\ now' = now /\ ~(UNCHANGED last /\ readyState' # readyState)

ViolatesConstraints(data) ==
  \/ Len(data.botName) < 3
  \/ ~IsInteger(data.botCount) \/ data.botCount.whole < 1 \/ data.botCount.whole > 10
  \/ ~MatchesAddress(data.serverIp)
Rejected(c) ==
  /\ pushes' = Append(pushes, Push(c, "error", NoSid, "Invalid connection details"))
  /\ UNCHANGED << gs, store, currentId, activeBots, sessions, clients, clientSockets,
                  inflight, timers >>
\* C11: a `connect` whose payload violates a constraint (name shorter than 3,
\* count not an integer in 1..10, address not matching the pattern) is answered
\* with one `error` push and changes nothing else: no GameSession, no record, the
\* table and the connection's botId as before.
C11_InvalidConnectRejected ==
  [][\A c \in ClientIds :
       ((Ran("connect") \/ Ran("connect-invalid")) /\ last'.c = c
          /\ ViolatesConstraints(last'.arg)) => Rejected(c)]_vars
\* An address that does not match was rejected while a session was in the table.
C11_Witness ==
  /\ last.op = "connect-invalid"
  /\ ~MatchesAddress(last.arg.serverIp)
  /\ DOMAIN activeBots # {}

SpawnOnLive(g) ==
  /\ Ran("spawn") /\ last'.g = g /\ last'.had
  /\ gs[g].attached
  /\ Open(gs[g].clientId) /\ gs[g].clientId \in clientSockets
\* C12: when `spawn` of a GameSession of a session in the table is delivered and
\* the owner's socket is open, the owner gets a `connected` push, the persisted
\* record's connected flag is true, and the connection timeout armed for that
\* GameSession is cancelled.
C12_SpawnConnects ==
  [][\A g \in 1..Len(gs) :
       SpawnOnLive(g) =>
         /\ pushes' = Append(pushes, Push(gs[g].clientId, "connected", gs[g].sid, ""))
         /\ store'[gs[g].sid].connected
         /\ \A i \in 1..Len(timers') : ~IsTimeoutOf(g, timers'[i])]_vars
\* The replacement GameSession of a version retry spawned on its session.
C12_Witness ==
  /\ last.op = "spawn" /\ last.had /\ last.acted
  /\ gs[last.g].version = "1.20.1"
  /\ store[gs[last.g].sid].connected
  /\ pushes[Len(pushes)].type = "connected"

TimerRan == Ran("timeout") \/ Ran("reconnect") \/ Ran("jumpClear")
\* C13: a timer of a session that is no longer in the table takes no action when
\* it fires: no push, no teardown, no GameSession constructed or installed, no
\* command issued to a GameSession.
C13_NoTimerActsAfterTeardown ==
  [][(TimerRan /\ ~last'.had) =>
       /\ pushes' = pushes /\ activeBots' = activeBots /\ sessions' = sessions
       /\ store' = store /\ gs' = gs
       /\ last'.cmds = << >>]_vars

\* C14: after the `close` handler of a client (which disconnects its bot and
\* unregisters it), no session owned by that client is in the table, and the
\* client is in neither the manager's socket registry nor the gateway's map.
C14_CloseRemovesSessions ==
  last.op = "close" =>
    /\ OwnedBy(M, last.c) = {}
    /\ last.c \notin clientSockets
    /\ last.c \notin DOMAIN clients

\* C15: controlBot and sendChatMessage on an id that is not in the table return
\* false, call nothing and change nothing; when the session is there and a
\* GameSession call throws, they return false, nothing propagates to the caller
\* and the session stays in the table.
C15_CommandsNeverThrow ==
  [][(Ran("control") \/ Ran("chat")) =>
       /\ ~last'.had =>
            /\ last'.ret = "false" /\ last'.cmds = << >>
            /\ UNCHANGED << activeBots, sessions, store, gs, timers, pushes, clients,
                            clientSockets >>
       /\ (last'.had /\ last'.threw) =>
            /\ last'.ret = "false" /\ ~last'.uncaught
            /\ last'.botId \in DOMAIN activeBots']_vars
\* `forward` whose setControlState threw after clearControlStates had run.
C15_Witness ==
  /\ last.op = "control" /\ last.had /\ last.threw
  /\ Len(last.cmds) = 2
  /\ last.ret = "false"
  /\ last.botId \in DOMAIN activeBots

\* The handler that ran last was a kick, an `end`, an `error` that did not start
\* a version retry, or a connection-timeout expiry.
TeardownEvent ==
  \/ last.op \in {"kicked", "end", "timeout"}
  \/ last.op = "error" /\ ~last.acted
\* C16: a kick, an `end`, an `error` other than a version mismatch, or the expiry
\* of the connection timeout, on a session in the table whose owner's socket is
\* open, leaves an `error` push to the owner as the last push and the session
\* absent from the table.
C16_ProtocolErrorTearsDown ==
  (TeardownEvent /\ last.had /\ Open(last.c) /\ last.c \in clientSockets) =>
    /\ last.botId \notin DOMAIN activeBots
    /\ pushes # << >>
    /\ pushes[Len(pushes)].type = "error" /\ pushes[Len(pushes)].to = last.c

\* A step of a handler that calls sendToClient exactly once, whatever the state.
SendsOnce == Ran("kicked") \/ Ran("message") \/ (Ran("end") /\ last'.acted)
\* C17: sendToClient delivers the event when the client's socket is registered
\* and open; otherwise nothing is sent, nothing is raised and the log of pushes
\* is unchanged.
C17_SendOnlyWhenOpen ==
  [][SendsOnce =>
       IF last'.c \in clientSockets /\ Open(last'.c)
       THEN /\ Len(pushes') = Len(pushes) + 1
            /\ SubSeq(pushes', 1, Len(pushes)) = pushes
            /\ pushes'[Len(pushes')].to = last'.c
       ELSE pushes' = pushes /\ ~last'.uncaught]_vars
\* A chat event was recorded in the history of a session whose owner's socket
\* had left OPEN, and no chat push was sent.
C17_Witness ==
  /\ last.op = "message" /\ last.acted
  /\ ~Open(last.c)
  /\ Len(sessions[gs[last.g].sid].chatMessages) = 1
  /\ SelectSeq(pushes, IsChatPush) = << >>

\* C18: createBot never returns an id that was a key of the session table when
\* it stored its session: a creation overwrites no existing entry.
C18_BotIdFresh ==
  last.op = "createBot" => ~last.had

\* C19: after disconnectAllBots no session is left in the table.
C19_DisconnectAllLeavesNone ==
  last.op = "serverClose" => DOMAIN activeBots = {}

\* C20: a `disconnect` or `cancel` of a connection that has a botId leaves that
\* session absent from the table and the connection's botId unset; `disconnect`
\* sends exactly one `disconnected` push to the sender, `cancel` sends nothing.
C20_DisconnectAndCancel ==
  [][((Ran("disconnect") \/ Ran("cancel")) /\ last'.acted) =>
       /\ last'.botId \notin DOMAIN activeBots'
       /\ clients'[last'.c] = NoBot
       /\ IF last'.op = "disconnect"
          THEN pushes' = Append(pushes, Push(last'.c, "disconnected", NoSid, ""))
          ELSE pushes' = pushes]_vars

\* Setting up the version retry threw in the handler that ran last: bot.end()
\* inside the `error` handler, or mineflayer.createBot inside the retry timer.
ReconnectSetupThrew == last.op \in {"error", "reconnect"} /\ last.threw
\* C21: when setting up the version-mismatch reconnection throws on a session in
\* the table (and quit() does not throw), nothing escapes uncaught, the session
\* is removed from the table, and the last push to its owner is an `error`.
C21_ReconnectSetupFallsThrough ==
  (ReconnectSetupThrew /\ last.had /\ NoQuitThrew) =>
    /\ ~last.uncaught
    /\ last.botId \notin DOMAIN activeBots
    /\ (Open(last.c) /\ last.c \in clientSockets) =>
         /\ pushes # << >>
         /\ pushes[Len(pushes)].type = "error" /\ pushes[Len(pushes)].to = last.c

\* The four directional movement intents, and the one each action sets.
Directions == {"forward", "back", "left", "right"}
OwnIntent(action) == IF action = "backward" THEN "back" ELSE action
DirectionsSet(g) == gs[g].controls \cap Directions
MoveDone(g) ==
  /\ Ran("control") /\ last'.had /\ ~last'.threw
  /\ sessions[last'.id].bot = g
\* C22: a GameSession never has more than one directional intent set; a
\* `forward`, `backward`, `left` or `right` that ran leaves exactly its own
\* intent set and no other, and a `stop` that ran leaves none.
C22_OneDirection ==
  /\ [](\A g \in 1..Len(gs) : Cardinality(DirectionsSet(g)) <= 1)
  /\ [][\A g \in 1..Len(gs) :
         /\ (MoveDone(g) /\ last'.action \in {"forward", "backward", "left", "right"})
              => gs'[g].controls = {OwnIntent(last'.action)}
         /\ (MoveDone(g) /\ last'.action = "stop") => gs'[g].controls = {}]_vars
\* `backward` ran while a jump intent was waiting for its clear: only `back` is set.
C22_Witness ==
  /\ last.op = "control" /\ last.action = "backward" /\ last.ret = "true"
  /\ \E g \in 1..Len(gs) : gs[g].controls = {"back"}
  /\ \E i \in 1..Len(timers) : timers[i].kind = "jump"

JumpOn(g) == g \in 1..Len(gs) /\ "jump" \in gs[g].controls
\* A `jump` handled for a session in the table whose GameSession g has its agent.
JumpRan(g) ==
  /\ Ran("control") /\ last'.action = "jump" /\ last'.had
  /\ sessions[last'.id].bot = g /\ gs[g].entity
C24_UnknownActionNoOp ==
  [][(Ran("control") /\ last'.had /\ last'.action \notin KnownActions) =>
       /\ last'.cmds = << >>
       /\ last'.ret = "true" /\ ~last'.threw
       /\ UNCHANGED << activeBots, sessions, store, gs, timers, pushes, clients,
                       clientSockets >>]_vars
\* `dance` was handled while the GameSession was moving with a jump clear pending.
C24_Witness ==
  /\ last.op = "control" /\ last.action = "dance" /\ last.had /\ last.ret = "true"
  /\ \E g \in 1..Len(gs) : gs[g].controls \cap Directions # {}
  /\ \E i \in 1..Len(timers) : timers[i].kind = "jump"

\* GameSession g has spawned or has emitted an `error` (its once-handlers ran).
SpawnedOrErrored(g) == gs[g].attached /\ (~gs[g].spawnOnce \/ ~gs[g].errorOnce)
\* C25: the connection timeout of a GameSession that has spawned, or has
\* emitted its first `error`, is not pending any more, so its callback never
\* runs: every timeout push and timeout teardown is for a GameSession that has
\* neither spawned nor emitted an `error`.
C25_TimeoutCancelled ==
  /\ [](\A i \in 1..Len(timers) :
          timers[i].kind = "timeout" => ~SpawnedOrErrored(timers[i].g))
  /\ [][Ran("timeout") =>
          /\ ~SpawnedOrErrored(last'.g)
          /\ gs[last'.g].phase # "spawned"]_vars
\* A GameSession spawned, its session is in the table at the end of the run, the
\* timeout of the GameSession is not pending and no timeout push was sent.
C25_Witness ==
  \E g \in 1..Len(gs) :
    /\ gs[g].phase = "spawned" /\ SpawnedOrErrored(g)
    /\ gs[g].botId \in DOMAIN activeBots
    /\ now = MaxClock
    /\ \A i \in 1..Len(timers) : ~IsTimeoutOf(g, timers[i])
    /\ \A i \in 1..Len(pushes) : ~IsTimeoutPush(pushes[i])

\* The network-failure categories in the order they are tested, with the
\* message of each.
Categories == << "ECONNREFUSED", "ECONNRESET", "ETIMEDOUT", "getaddrinfo" >>
CategoryText ==
  << "Connection refused", "Connection reset by server",
     "Connection timed out (network)", "Could not resolve server address" >>
Matching(msg) == {k \in 1..Len(Categories) : \E i \in 1..Len(msg) : msg[i] = Categories[k]}
FirstMatching(msg) == CHOOSE k \in Matching(msg) : \A x \in Matching(msg) : k <= x
ExpectedText(msg) ==
  IF Matching(msg) = {} THEN "Bot error: " \o Join(msg, " ")
  ELSE CategoryText[FirstMatching(msg)]
\* The message names no version number after the word "version".
NoVersionNumber(msg) ==
  \A i \in 1..Len(msg) : msg[i] = "version" => (i = Len(msg) \/ msg[i + 1] \notin VersionWords)
\* C26: an `error` whose message carries no version number after "version"
\* (also one that mentions "version" without a number) on a session in the table
\* whose owner's socket is open starts no retry: it sends one `error` push whose
\* text is that of the first matching category in the order refused, reset,
\* timed out, address resolution, or else the raw message behind "Bot error: ",
\* and calls disconnectBot once on the session, which leaves the table when the
\* call returns true.
C26_ErrorClassified ==
  [][(Ran("error") /\ last'.had /\ NoVersionNumber(last'.err)
        /\ Open(last'.c) /\ last'.c \in clientSockets) =>
       /\ ~last'.acted
       /\ SelectSeq(timers', IsReconnect) = SelectSeq(timers, IsReconnect)
       /\ pushes' = Append(pushes, Push(last'.c, "error", last'.id, ExpectedText(last'.err)))
       /\ Len(last'.calls) = 1 /\ last'.calls[1].botId = last'.botId
       /\ last'.calls[1].ret => last'.botId \notin DOMAIN activeBots']_vars
\* An `error` that matches two categories got the message of the earlier one and
\* its session was removed.
C26_Witness ==
  /\ last.op = "error" /\ last.had
  /\ last.err = <<"read", "ETIMEDOUT", "after", "ECONNRESET">>
  /\ pushes[Len(pushes)].text = "Connection reset by server"
  /\ last.botId \notin DOMAIN activeBots

\* The decimal digits of a natural number, and a digit string without its
\* leading zeros.
RECURSIVE ToDigits(_)
ToDigits(n) ==
  IF n < 10 THEN << DigitChars[n + 1] >>
  ELSE ToDigits(n \div 10) \o << DigitChars[(n % 10) + 1] >>
RECURSIVE StripZeros(_)
StripZeros(s) == IF Len(s) > 1 /\ Head(s) = "0" THEN StripZeros(Tail(s)) ELSE s
FirstColon(s) == CHOOSE k \in Colons(s) : \A x \in Colons(s) : k <= x
\* C27: every session holds the host and the port of the address it was created
\* with (the address kept in its persisted record): without a colon the host is
\* the whole address and the port is 25565; with a colon the host is what stands
\* before it and the port is the number written after it; the port is always
\* an integer.
C27_AddressParsed ==
  \A sid \in DOMAIN sessions :
    LET address == store[sid].server
        s == sessions[sid]
    IN /\ s.port \in Nat
       /\ Colons(address) = {} => (s.server = address /\ s.port = DefaultPort)
       /\ Colons(address) # {} =>
            /\ s.server = SubSeq(address, 1, FirstColon(address) - 1)
            /\ ToDigits(s.port) =
                 StripZeros(SubSeq(address, FirstColon(address) + 1, Len(address)))
\* A session was created with the address mc.io:08080: host mc.io, port 8080.
C27_Witness ==
  \E sid \in DOMAIN sessions :
    /\ store[sid].server = << "m", "c", ".", "i", "o", ":", "0", "8", "0", "8", "0" >>
    /\ sessions[sid].server = << "m", "c", ".", "i", "o" >>
    /\ sessions[sid].port = 8080

\* C28: a message whose payload cannot be parsed is answered with exactly one
\* `error` push ("Invalid message format") to its sender and has no other
\* effect: the session table, the sessions, the client registry, the persisted
\* store, the connection's botId, the GameSessions and the timers are unchanged.
C28_MalformedOnlyPushes ==
  [][Ran("malformed") =>
       /\ pushes' = Append(pushes, Push(last'.c, "error", NoSid, "Invalid message format"))
       /\ UNCHANGED << activeBots, sessions, store, currentId, clients, clientSockets,
                       readyState, gs, timers, inflight >>]_vars
\* A malformed message was answered while its sender had a session in the table.
C28_Witness ==
  /\ last.op = "malformed"
  /\ clients[last.c] \in DOMAIN activeBots
  /\ pushes[Len(pushes)] = Push(last.c, "error", NoSid, "Invalid message format")

\* The session the handler of the step belongs to: the one its GameSession was
\* set up for, or the one a `disconnect` or `cancel` found in the table.
TeardownOf(sid) ==
  \/ /\ Ran("kicked") \/ Ran("error") \/ Ran("end") \/ Ran("timeout")
     /\ last'.g \in 1..Len(gs) /\ gs[last'.g].attached /\ gs[last'.g].sid = sid
  \/ /\ Ran("disconnect") \/ Ran("cancel")
     /\ last'.had /\ last'.id = sid
Untouched(sid) ==
  /\ sessions'[sid] = sessions[sid]
  /\ store'[sid] = store[sid]
  /\ gs'[sessions[sid].bot] = gs[sessions[sid].bot]
  /\ \A b \in DOMAIN activeBots :
       activeBots[b] = sid => (b \in DOMAIN activeBots' /\ activeBots'[b] = sid)
\* C29: a kick, `error`, `end` or timeout of one session's GameSession, and a
\* `disconnect` or `cancel` of one session, leave every other session as it
\* was: its table entry, its record (adapter, status, chat history), its
\* persisted record and its GameSession.
C29_SessionsIsolated ==
  [][\A sid \in DOMAIN sessions :
       TeardownOf(sid) => \A other \in DOMAIN sessions \ {sid} : Untouched(other)]_vars

\* C30: every `connected` push of a session was sent after a GameSession of that
\* session had spawned; createBot sends none.
C30_ConnectedOnlyAfterSpawn ==
  /\ \A i \in 1..Len(pushes) :
       pushes[i].type = "connected" =>
         \E g \in 1..Len(gs) : gs[g].sid = pushes[i].sid /\ gs[g].phase = "spawned"
  /\ last.op \in {"createBot", "createBot-failed"} =>
       \A i \in 1..Len(pushes) : ~(pushes[i].type = "connected" /\ pushes[i].sid = last.id)

\* C31: every session in the table is owned by a client that is in the
\* manager's socket registry; no createBot call is suspended for a client that
\* has left it.
C31_OwnerRegistered ==
  /\ \A b \in DOMAIN activeBots : sessions[activeBots[b]].clientId \in clientSockets
  /\ \A i \in 1..Len(inflight) : inflight[i].clientId \in clientSockets

\* C32: when a `cancel` or `disconnect` was handled while the sender's createBot
\* call was suspended (the message came after the `connect`), the createBot
\* call that resumes next leaves no session of its own in the table.
C32_CancelAfterConnect ==
  [][(/\ last.op \in {"cancel", "disconnect"} /\ inflight # << >>
      /\ Head(inflight).clientId = last.c
      /\ Ran("createBot")) =>
       last'.botId \notin DOMAIN activeBots']_vars

\* The table entries whose session has GameSession g as its adapter.
EntriesOf(g) == {b \in DOMAIN activeBots : sessions[activeBots[b]].bot = g}
\* C33: every GameSession that was constructed and has neither ended nor been
\* asked to end is the adapter of exactly one session in the table.
C33_GameSessionOwned ==
  \A g \in 1..Len(gs) : gs[g].ended = "no" => Cardinality(EntriesOf(g)) = 1

\* C34: the botId the gateway keeps for a connection is unset or a key of the
\* session table, and a `disconnect` is answered with `disconnected` only when
\* it found its session in the table.
C34_BotIdInTable ==
  /\ \A c \in DOMAIN clients : clients[c] = NoBot \/ clients[c] \in DOMAIN activeBots
  /\ (last.op = "disconnect" /\ last.acted) => last.had

\* A chat, health, spawn or `end` event of a GameSession with handlers.
RelayedEvent ==
  /\ Ran("message") \/ Ran("health") \/ Ran("spawn") \/ Ran("end")
  /\ last'.g \in 1..Len(gs) /\ gs[last'.g].attached
\* C35: a chat, health, spawn or `end` event of a GameSession whose session is
\* no longer in the table sends no push and leaves the table as it was.
C35_NoPushAfterRemoval ==
  [][(RelayedEvent /\ ~last'.had) => (pushes' = pushes /\ activeBots' = activeBots)]_vars

\* The persisted records that have a session in the table.
InTable == {activeBots[b] : b \in DOMAIN activeBots}
\* C36: a persisted record has connected = TRUE only while a session for it is
\* in the session table.
C36_ConnectedOnlyInTable ==
  \A id \in DOMAIN store : store[id].connected => id \in InTable

\* ------------------------------ the browser's WebSocketProvider: its steps
SocketIds == 1..MaxSockets
\* The codes a close the browser did not ask for arrives with.
PeerCodes == {1001, 1006, 1011}
StateOf(s) == IF s \in 1..Len(provider.webSockets)
              THEN provider.webSockets[s].readyState ELSE "none"
Heard(b, s, state) == [b EXCEPT !.webSockets[s].readyState = state]

\* A handler has run; React renders, and the effect on [socket] is cleaned up
\* when `socket` changed.
Step(b, op, s, code) ==
  /\ provider' = Render([b EXCEPT !.op = op, !.s = s, !.code = code])
  /\ UNCHANGED vars

\* The application calls connect()
Connect ==
  /\ Len(provider.promises) < MaxPromises
  /\ provider.isConnecting \/ Len(provider.webSockets) < MaxSockets
  /\ Step([connect(provider) EXCEPT !.user = "connect"], "connect", provider.socket, 0)

\* The application calls disconnect()
Disconnect ==
  /\ provider' = Render([disconnect(provider) EXCEPT !.user = "disconnect",
                                                     !.op = "disconnect",
                                                     !.s = provider.socket, !.code = 0])
  /\ UNCHANGED vars

\* The connection of socket s is established.
WsOpen(s) ==
  /\ StateOf(s) = "CONNECTING"
  /\ Step(onopen([Heard(provider, s, "OPEN") EXCEPT !.webSockets[s].opened = TRUE], s),
          "open", s, 0)

\* The connection of socket s fails before it is established, or s was closed
\* before then: the browser fires `error`, then `close` with code 1006.
WsFail(s) ==
  /\ \/ StateOf(s) = "CONNECTING"
     \/ StateOf(s) = "CLOSING" /\ ~provider.webSockets[s].opened
  /\ Step(onclose(onerror(Heard(provider, s, "CLOSED"), s), s, 1006), "close", s, 1006)

\* The established connection of socket s is closed by the server or lost; a
\* lost one may fire `error` first.
WsDrop(s, code, withError) ==
  /\ StateOf(s) = "OPEN"
  /\ withError => code = 1006
  /\ LET b == Heard(provider, s, "CLOSED")
     IN Step(onclose(IF withError THEN onerror(b, s) ELSE b, s, code), "close", s, code)

\* The close the provider asked for on an established socket s completes.
WsClosed(s) ==
  /\ StateOf(s) = "CLOSING" /\ provider.webSockets[s].opened
  /\ LET code == closeCode(provider.webSockets[s])
     IN Step(onclose(Heard(provider, s, "CLOSED"), s, code), "close", s, code)

\* The 10 s connectionTimeout of socket s fires.
ConnectionTimeout(s) ==
  /\ s \in 1..Len(provider.webSockets) /\ provider.webSockets[s].connectionTimeout
  /\ Step(onConnectionTimeout(provider, s), "timeout", s, 0)

\* The reconnect timer armed by the close of socket t fires; its callback is the
\* createWebSocketConnection that constructed t, which saw isConnecting false.
ReconnectTimeout(t) ==
  /\ t \in provider.reconnects
  /\ Len(provider.webSockets) < MaxSockets
  /\ Step(createWebSocketConnection([provider EXCEPT !.reconnects = @ \ {t}], FALSE),
          "reconnect", t, 0)

NextProvider ==
  \/ Connect
  \/ Disconnect
  \/ \E s \in SocketIds : WsOpen(s)
  \/ \E s \in SocketIds : WsFail(s)
  \/ \E s \in SocketIds, code \in PeerCodes, withError \in BOOLEAN : WsDrop(s, code, withError)
  \/ \E s \in SocketIds : WsClosed(s)
  \/ \E s \in SocketIds : ConnectionTimeout(s)
  \/ \E t \in SocketIds : ReconnectTimeout(t)

InitProvider == InitManager /\ \E revision \in Revisions : provider = Mounted(revision)

SpecProvider == InitProvider /\ [][NextProvider]_provider

\* The close of socket s with an abnormal code has just been handled.
AbnormalClose ==
  provider'.op = "close" /\ shouldReconnect(provider.revision, provider'.code)
Armed == provider'.reconnects \ provider.reconnects # {}
\* C37: the reconnect counter never exceeds 5; a reconnect timer is armed only
\* by an abnormal close that found the counter below 5; an abnormal close that
\* finds it at 5 arms none and sets the status max_reconnect_attempts; onopen,
\* connect() and disconnect() leave the counter at 0.
C37_ReconnectBounded ==
  /\ [](provider.reconnectAttemptsRef <= MAX_RECONNECT_ATTEMPTS)
  /\ [][/\ Armed => (AbnormalClose /\ provider.reconnectAttemptsRef < MAX_RECONNECT_ATTEMPTS)
        /\ (AbnormalClose /\ provider.reconnectAttemptsRef = MAX_RECONNECT_ATTEMPTS) =>
             (~Armed /\ provider'.connectionStatus = <<"max_reconnect_attempts">>)
        /\ provider'.op \in {"open", "connect", "disconnect"} =>
             provider'.reconnectAttemptsRef = 0]_provider
\* Five reconnects were tried and the sixth abnormal close gave up.
C37_GaveUp ==
  /\ provider.op = "close" /\ provider.reconnectAttemptsRef = MAX_RECONNECT_ATTEMPTS
  /\ provider.connectionStatus = <<"max_reconnect_attempts">>

\* disconnect() has just run: no reconnect timer is left pending, and the socket
\* it saw, if open, is closing with code 1000.
Disconnected ==
  /\ provider'.reconnects = {}
  /\ (provider.socket # null /\ StateOf(provider.socket) = "OPEN") =>
       /\ provider'.webSockets[provider.socket].readyState = "CLOSING"
       /\ provider'.webSockets[provider.socket].code = 1000
\* C38: disconnect() cancels the pending reconnect timer and closes the socket
\* with code 1000; from then until the next connect(), no reconnect timer is
\* armed and no WebSocket is constructed.
C38_NoReconnectAfterDisconnect ==
  [][/\ provider'.op = "disconnect" => Disconnected
     /\ (provider.user = "disconnect" /\ provider'.user = "disconnect") =>
          (~Armed /\ Len(provider'.webSockets) = Len(provider.webSockets))]_provider

\* The browser reports the outcome of every connection attempt and of every
\* close it was asked for, and every timer that stays armed fires.
SpecProviderLive ==
  /\ SpecProvider
  /\ \A s \in SocketIds :
       /\ WF_provider(WsOpen(s) \/ WsFail(s))
       /\ WF_provider(WsClosed(s))
       /\ WF_provider(ConnectionTimeout(s))
       /\ WF_provider(ReconnectTimeout(s))

Settled(p) == p <= Len(provider.promises) /\ provider.promises[p].state # "pending"
\* C39: every promise connect() returned is resolved or rejected by at most one
\* call, and is eventually settled.
C39_EveryPromiseSettled ==
  /\ [](\A p \in 1..Len(provider.promises) : provider.promises[p].calls <= 1)
  /\ \A p \in 1..MaxPromises : (p <= Len(provider.promises)) ~> Settled(p)

====
